---- MODULE Spec2Model ----
(***************************************************************************)
(* Canonical Huffman coder and 32-bit static-model arithmetic coder of     *)
(* coders/huffman.py and coders/arithmetic.py.                              *)
(*                                                                         *)
(* Byte strings are sequences of 0..255, bit strings are sequences of 0/1. *)
(* A Python dict is a sequence of <<key, value>> pairs in insertion order. *)
(* The result of a call is a record [exc, val]: exc = "none" and val the   *)
(* returned bytes, or exc the name of the exception the call ended in.     *)
(***************************************************************************)
EXTENDS Integers, Sequences, FiniteSets, TLC

\* ------------------------------------------------------------------ bounds
\* SpecTree draws its inputs over the byte values 0..MaxSym, each distinct
\* value repeated 1..MaxCount times, MaxInput bytes at most.
MaxSym == 4
MaxCount == 2
MaxInput == 7

\* ------------------------------------------------------- generic helpers
Min(a, b) == IF a < b THEN a ELSE b

RECURSIVE Pow2(_)
Pow2(n) == IF n = 0 THEN 1 ELSE 2 * Pow2(n - 1)

RECURSIVE Repeat(_, _)
Repeat(x, n) == IF n <= 0 THEN <<>> ELSE <<x>> \o Repeat(x, n - 1)

\* s[a:b] of Python, 0-based, clipped to the sequence (never raises)
Slice(s, a, b) == SubSeq(s, Min(a, Len(s)) + 1, Min(b, Len(s)))

Ok(v) == [exc |-> "none", val |-> v]
Raise(e) == [exc |-> e, val |-> <<>>]

\* ------------------------------------------------------------ _Node
None == -2

Leaf(f, s) == [freq |-> f, symbol |-> s, left |-> None, right |-> None]
Internal(f, l, r) == [freq |-> f, symbol |-> None, left |-> l, right |-> r]

\* `self.symbol or -1`: None and the byte value 0 are both falsy
SymKey(n) == IF n.symbol = None \/ n.symbol = 0 THEN -1 ELSE n.symbol

\* _Node.__lt__: lexicographic order of (freq, symbol or -1)
Lt(a, b) == \/ a.freq < b.freq
            \/ a.freq = b.freq /\ SymKey(a) < SymKey(b)

\* sorted(S): the elements of a set of integers, ascending
SortAsc(S) ==
  [k \in 1..Cardinality(S) |->
     CHOOSE x \in S : Cardinality({ y \in S : y < x }) = k - 1]

\* ------------------------------------------------------------ Counter
\* Counter(data): <<symbol, count>> pairs in order of first occurrence
Counter(d) ==
  LET pos == SortAsc({ i \in 1..Len(d) : \A j \in 1..(i - 1) : d[j] # d[i] })
  IN [k \in 1..Len(pos) |->
        <<d[pos[k]], Cardinality({ j \in 1..Len(d) : d[j] = d[pos[k]] })>>]

\* dict lookup d[k] on a sequence of pairs
Get(d, k) == LET i == CHOOSE j \in 1..Len(d) : d[j][1] = k IN d[i][2]
Keys(d) == [i \in 1..Len(d) |-> d[i][1]]

\* ------------------------------------------------------------ heapq
\* positions are 0-based as in heapq; At/Put translate to 1-based sequences
At(h, p) == h[p + 1]
Put(h, p, x) == [h EXCEPT ![p + 1] = x]

\* heapq._siftdown(heap, startpos, pos), newitem carried separately
RECURSIVE SiftDownLoop(_, _, _, _)
SiftDownLoop(h, startpos, pos, newitem) ==
  IF pos > startpos
  THEN LET parentpos == (pos - 1) \div 2
           parent == At(h, parentpos)
       IN IF Lt(newitem, parent)
          THEN SiftDownLoop(Put(h, pos, parent), startpos, parentpos, newitem)
          ELSE Put(h, pos, newitem)
  ELSE Put(h, pos, newitem)

SiftDown(h, startpos, pos) == SiftDownLoop(h, startpos, pos, At(h, pos))

\* heapq._siftup(heap, pos): bubble the smaller child up to a leaf, then
\* sift the displaced item down from there
RECURSIVE SiftUpLoop(_, _, _, _)
SiftUpLoop(h, startpos, pos, newitem) ==
  LET endpos == Len(h)
      childpos == 2 * pos + 1
      rightpos == childpos + 1
      c == IF rightpos < endpos /\ ~Lt(At(h, childpos), At(h, rightpos))
           THEN rightpos ELSE childpos
  IN IF childpos < endpos
     THEN SiftUpLoop(Put(h, pos, At(h, c)), startpos, c, newitem)
     ELSE SiftDownLoop(Put(h, pos, newitem), startpos, pos, newitem)

SiftUp(h, pos) == SiftUpLoop(h, pos, pos, At(h, pos))

\* heappush(heap, item): the heap afterwards
HeapPush(h, item) == SiftDown(Append(h, item), 0, Len(h))

\* heappop(heap): [item |-> returned node, heap |-> the heap afterwards]
HeapPop(h) ==
  LET lastelt == h[Len(h)]
      rest == SubSeq(h, 1, Len(h) - 1)
  IN IF rest # <<>>
     THEN [item |-> rest[1], heap |-> SiftUp(Put(rest, 0, lastelt), 0)]
     ELSE [item |-> lastelt, heap |-> rest]

\* ------------------------------------------------------------ _build_tree
\* line 143-144: one leaf per Counter item, then heappush(heap, heappop(heap))
InitialHeap(freq) ==
  LET leaves == [i \in 1..Len(freq) |-> Leaf(freq[i][2], freq[i][1])]
      p == HeapPop(leaves)
  IN HeapPush(p.heap, p.item)

\* line 146: n1, n2 = heappop(heap), heappop(heap)
PopTwo(h) ==
  LET p1 == HeapPop(h)
      p2 == HeapPop(p1.heap)
  IN [n1 |-> p1.item, n2 |-> p2.item, heap |-> p2.heap]

\* line 147: push the merged node
PushMerged(h, a, b) == HeapPush(h, Internal(a.freq + b.freq, a, b))

RECURSIVE MergeAll(_)
MergeAll(h) ==
  IF Len(h) > 1
  THEN LET p == PopTwo(h) IN MergeAll(PushMerged(p.heap, p.n1, p.n2))
  ELSE h[1]

BuildTree(freq) == MergeAll(InitialHeap(freq))

\* ------------------------------------------------------------ code maps
\* _build_code_map: dict symbol -> raw bit string, in depth-first order
RECURSIVE BuildCodeMap(_, _)
BuildCodeMap(node, prefix) ==
  IF node.symbol # None
  THEN << <<node.symbol, IF prefix = <<>> THEN <<0>> ELSE prefix>> >>
  ELSE BuildCodeMap(node.left, Append(prefix, 0))
       \o BuildCodeMap(node.right, Append(prefix, 1))

\* sorted(pairs, key=lambda x: (x[1], x[0])) on <<symbol, length>> pairs
LenSymLess(a, b) == a[2] < b[2] \/ (a[2] = b[2] /\ a[1] < b[1])

RECURSIVE InsertSorted(_, _)
InsertSorted(s, x) ==
  IF s = <<>> THEN <<x>>
  ELSE IF LenSymLess(x, s[1]) THEN <<x>> \o s
  ELSE <<s[1]>> \o InsertSorted(Tail(s), x)

\* stable: an element equal to earlier ones is placed after them
RECURSIVE SortLenSym(_)
SortLenSym(s) ==
  IF s = <<>> THEN <<>>
  ELSE InsertSorted(SortLenSym(SubSeq(s, 1, Len(s) - 1)), s[Len(s)])

\* bin(n) without the prefix: at least one digit
RECURSIVE BinDigits(_)
BinDigits(n) == IF n < 2 THEN <<n>> ELSE Append(BinDigits(n \div 2), n % 2)

\* f"{code:0{ln}b}": zero-padded on the left to at least ln digits
FormatBin(code, ln) ==
  LET d == BinDigits(code) IN Repeat(0, ln - Len(d)) \o d

\* variant of the assignment loop that never shifts the running code when
\* the length grows
RECURSIVE CanonLoopNoShift(_, _, _)
CanonLoopNoShift(pairs, code, prev_len) ==
  IF pairs = <<>> THEN <<>>
  ELSE LET sym == pairs[1][1]
           ln == pairs[1][2]
       IN << <<sym, FormatBin(code, ln)>> >>
          \o CanonLoopNoShift(Tail(pairs), code + 1, ln)

\* the canonical assignment loop of _to_canonical (lines 164-170):
\* pairs are <<symbol, length>> in assignment order
RECURSIVE CanonLoop(_, _, _)
CanonLoop(pairs, code, prev_len) ==
  IF pairs = <<>> THEN <<>>
  ELSE LET sym == pairs[1][1]
           ln == pairs[1][2]
           c == code * Pow2(ln - prev_len)
       IN << <<sym, FormatBin(c, ln)>> >> \o CanonLoop(Tail(pairs), c + 1, ln)

Lengths(code_map) == [i \in 1..Len(code_map) |-> <<code_map[i][1], Len(code_map[i][2])>>]

\* _to_canonical: the dict `canonical` (insertion order = sorted order)
ToCanonical(code_map) == CanonLoop(SortLenSym(Lengths(code_map)), 0, 0)

\* ------------------------------------------------------------ byte I/O
RUN == <<82, 85, 78>>   \* b"RUN"

StartsWith(s, p) == Len(s) >= Len(p) /\ SubSeq(s, 1, Len(p)) = p

\* digits of n in base 256, most significant first, exactly k of them
\* (the value modulo 256^k)
RECURSIVE BytesOf(_, _)
BytesOf(n, k) == IF k = 0 THEN <<>> ELSE Append(BytesOf(n \div 256, k - 1), n % 256)

RECURSIVE ShiftRightBytes(_, _)
ShiftRightBytes(n, k) == IF k = 0 THEN n ELSE ShiftRightBytes(n \div 256, k - 1)

\* n.to_bytes(k, "big"): OverflowError when n does not fit in k bytes
ToBytes(n, k) ==
  IF ShiftRightBytes(n, k) # 0 THEN Raise("OverflowError") ELSE Ok(BytesOf(n, k))

\* bytes([...]): ValueError when an element is outside 0..255
BytesLit(xs) ==
  IF \E i \in 1..Len(xs) : xs[i] < 0 \/ xs[i] > 255
  THEN Raise("ValueError") ELSE Ok(xs)

\* int.from_bytes(b, "big")
RECURSIVE FromBytes(_)
FromBytes(b) ==
  IF b = <<>> THEN 0
  ELSE 256 * FromBytes(SubSeq(b, 1, Len(b) - 1)) + b[Len(b)]

\* int(chunk, 2)
RECURSIVE BitsToInt(_)
BitsToInt(b) ==
  IF b = <<>> THEN 0
  ELSE 2 * BitsToInt(SubSeq(b, 1, Len(b) - 1)) + b[Len(b)]

\* _pack_bits: 8 bits per byte, most significant first, last chunk
\* left-justified with "0"
PackBits(bits) ==
  [i \in 1..((Len(bits) + 7) \div 8) |->
     LET chunk == Slice(bits, 8 * (i - 1), 8 * i)
     IN BitsToInt(chunk \o Repeat(0, 8 - Len(chunk)))]

\* "".join(f"{b:08b}" for b in bytes)
RECURSIVE UnpackBits(_)
UnpackBits(bs) ==
  IF bs = <<>> THEN <<>>
  ELSE FormatBin(bs[1], 8) \o UnpackBits(Tail(bs))

\* "".join(d[k] for k in keys)
RECURSIVE JoinCodes(_, _)
JoinCodes(d, keys) ==
  IF keys = <<>> THEN <<>>
  ELSE Get(d, keys[1]) \o JoinCodes(d, Tail(keys))

\* the parts of a buffer joined, by halves
RECURSIVE Flatten(_)
Flatten(ss) ==
  IF ss = <<>> THEN <<>>
  ELSE IF Len(ss) = 1 THEN ss[1]
  ELSE Flatten(SubSeq(ss, 1, Len(ss) \div 2))
       \o Flatten(SubSeq(ss, Len(ss) \div 2 + 1, Len(ss)))

\* the first result of a sequence of writes that raised, else the
\* concatenation of what they wrote
Writes(rs) ==
  IF \E i \in 1..Len(rs) : rs[i].exc # "none"
  THEN rs[CHOOSE i \in 1..Len(rs) :
            rs[i].exc # "none" /\ \A j \in 1..(i - 1) : rs[j].exc = "none"]
  ELSE Ok(Flatten([i \in 1..Len(rs) |-> rs[i].val]))

\* ------------------------------------------------------------ Huffman encode
\* the RUN record of both coders (huffman.py:58-59, arithmetic.py:85-86)
RunRecordLittleEndian(freq, data) ==
  LET r == ToBytes(Len(data), 4)
  IN Writes(<<Ok(RUN), BytesLit(<<freq[1][1]>>),
              [exc |-> r.exc,
               val |-> [i \in 1..Len(r.val) |-> r.val[Len(r.val) + 1 - i]]]>>)

RunRecord(freq, data) ==
  Writes(<<Ok(RUN), BytesLit(<<freq[1][1]>>), ToBytes(Len(data), 4)>>)

\* huffman.py:70-88, the writes to buf in program order
HuffmanBlob(data_, canon_, lengths_) ==
  LET code_bits == JoinCodes(canon_, Keys(canon_))
      payload_bits == JoinCodes(canon_, data_)
  IN Writes(<<ToBytes(Len(data_), 4),
              BytesLit(<<Len(canon_)>>)>>
            \o [i \in 1..Len(canon_) |->
                  BytesLit(<<canon_[i][1], Get(lengths_, canon_[i][1])>>)]
            \o <<ToBytes(Len(code_bits), 2),
                 Ok(PackBits(code_bits)),
                 ToBytes(Len(payload_bits), 4),
                 Ok(PackBits(payload_bits))>>)

\* HuffmanCoder.encode
HuffmanEncode(data_) ==
  IF data_ = <<>> THEN Ok(<<>>)
  ELSE LET f == Counter(data_)
       IN IF Len(f) = 1 THEN RunRecord(f, data_)
          ELSE LET m == BuildCodeMap(BuildTree(f), <<>>)
               IN HuffmanBlob(data_, ToCanonical(m), Lengths(m))

\* ------------------------------------------------------------ Huffman decode
\* dict assignment d[k] = v
RECURSIVE DictSet(_, _, _)
DictSet(d, k, v) ==
  IF d = <<>> THEN << <<k, v>> >>
  ELSE IF d[1][1] = k THEN << <<k, v>> >> \o Tail(d)
  ELSE <<d[1]>> \o DictSet(Tail(d), k, v)

Has(d, k) == \E i \in 1..Len(d) : d[i][1] = k

\* huffman.py:115-123: the table bit string -> symbol, replayed from the
\* sorted <<symbol, length>> pairs of the header
RECURSIVE TableLoop(_, _, _, _)
TableLoop(pairs, code, prev_len, table) ==
  IF pairs = <<>> THEN table
  ELSE LET sym == pairs[1][1]
           ln == pairs[1][2]
           c == IF ln # prev_len THEN code * Pow2(ln - prev_len) ELSE code
       IN TableLoop(Tail(pairs), c + 1, ln, DictSet(table, FormatBin(c, ln), sym))

DecodeTable(pairs) == TableLoop(SortLenSym(pairs), 0, 0, <<>>)

\* huffman.py:130-137: match the accumulated bits against the table
RECURSIVE MatchLoop(_, _, _, _, _)
MatchLoop(bits, table, orig_len, out, cur) ==
  IF bits = <<>> THEN out
  ELSE LET c == Append(cur, bits[1])
       IN IF Has(table, c)
          THEN LET o == Append(out, Get(table, c))
               IN IF Len(o) = orig_len THEN o
                  ELSE MatchLoop(Tail(bits), table, orig_len, o, <<>>)
          ELSE MatchLoop(Tail(bits), table, orig_len, out, c)

\* the RUN branch of both decoders (huffman.py:93-96, arithmetic.py:145-148)
RunDecode(blob_) ==
  IF Len(blob_) < 4 THEN Raise("IndexError")
  ELSE Ok(Repeat(blob_[4], FromBytes(Slice(blob_, 4, 8))))

\* HuffmanCoder.decode
HuffmanDecode(blob_) ==
  IF blob_ = <<>> THEN Ok(<<>>)
  ELSE IF StartsWith(blob_, RUN) THEN RunDecode(blob_)
  ELSE IF Len(blob_) < 5 THEN Raise("IndexError")
  ELSE
    LET orig_len == FromBytes(Slice(blob_, 0, 4))
        leaf_cnt == blob_[5]
        i1 == 5 + 2 * leaf_cnt
        pairs == [k \in 1..leaf_cnt |-> <<blob_[5 + 2 * k - 1], blob_[5 + 2 * k]>>]
        canon_len_bits == FromBytes(Slice(blob_, i1, i1 + 2))
        canon_bytes == (canon_len_bits + 7) \div 8
        i2 == i1 + 2 + canon_bytes
        payload_len_bits == FromBytes(Slice(blob_, i2, i2 + 4))
        payload_bytes == (payload_len_bits + 7) \div 8
        i3 == i2 + 4
        payload_bits == Slice(UnpackBits(Slice(blob_, i3, i3 + payload_bytes)),
                              0, payload_len_bits)
    IN IF Len(blob_) < i1 THEN Raise("IndexError")
       ELSE Ok(MatchLoop(payload_bits, DecodeTable(pairs), orig_len, <<>>, <<>>))

\* ------------------------------------------------------------ Python int
\* The arithmetic coder computes with values up to 2^64, beyond the 32-bit
\* integers of TLC, so its integers are kept as a sign and a magnitude:
\* [neg |-> BOOLEAN, mag |-> limbs], limbs in base 2^15, least significant
\* first, no leading zero limb; zero is [neg |-> FALSE, mag |-> <<>>].
Base == 32768

RECURSIVE NNorm(_)
NNorm(a) == IF a # <<>> /\ a[Len(a)] = 0 THEN NNorm(SubSeq(a, 1, Len(a) - 1)) ELSE a

RECURSIVE NOfInt(_)
NOfInt(n) == IF n = 0 THEN <<>> ELSE <<n % Base>> \o NOfInt(n \div Base)

Limb(a, i) == IF i <= Len(a) THEN a[i] ELSE 0

RECURSIVE NAddC(_, _, _)
NAddC(a, b, carry) ==
  IF a = <<>> /\ b = <<>> THEN (IF carry = 0 THEN <<>> ELSE <<carry>>)
  ELSE LET t == Limb(a, 1) + Limb(b, 1) + carry
       IN <<t % Base>> \o NAddC(Slice(a, 1, Len(a)), Slice(b, 1, Len(b)), t \div Base)

NAdd(a, b) == NAddC(a, b, 0)

\* a - b for a >= b
RECURSIVE NSubB(_, _, _)
NSubB(a, b, borrow) ==
  IF a = <<>> THEN <<>>
  ELSE LET t == a[1] - Limb(b, 1) - borrow
       IN <<IF t < 0 THEN t + Base ELSE t>>
          \o NSubB(Tail(a), Slice(b, 1, Len(b)), IF t < 0 THEN 1 ELSE 0)

NSub(a, b) == NNorm(NSubB(a, b, 0))

\* -1, 0, 1 as a < b, a = b, a > b
RECURSIVE NCmp(_, _)
NCmp(a, b) ==
  IF Len(a) # Len(b) THEN (IF Len(a) < Len(b) THEN -1 ELSE 1)
  ELSE IF a = <<>> THEN 0
  ELSE IF a[Len(a)] # b[Len(b)] THEN (IF a[Len(a)] < b[Len(b)] THEN -1 ELSE 1)
  ELSE NCmp(NNorm(SubSeq(a, 1, Len(a) - 1)), NNorm(SubSeq(b, 1, Len(b) - 1)))

\* a * k for one limb k
RECURSIVE NMulLimbC(_, _, _)
NMulLimbC(a, k, carry) ==
  IF a = <<>> THEN (IF carry = 0 THEN <<>> ELSE <<carry>>)
  ELSE LET t == a[1] * k + carry
       IN <<t % Base>> \o NMulLimbC(Tail(a), k, t \div Base)

NMulLimb(a, k) == NNorm(NMulLimbC(a, k, 0))

RECURSIVE NMul(_, _)
NMul(a, b) ==
  IF b = <<>> \/ a = <<>> THEN <<>>
  ELSE NAdd(NMulLimb(a, b[1]), LET r == NMul(a, Tail(b)) IN IF r = <<>> THEN <<>> ELSE <<0>> \o r)

\* the largest digit d in lo..hi with d * b <= rem (lo always qualifies)
RECURSIVE QuotDigit(_, _, _, _)
QuotDigit(rem, b, lo, hi) ==
  IF lo = hi THEN lo
  ELSE LET mid == (lo + hi + 1) \div 2
       IN IF NCmp(NMulLimb(b, mid), rem) <= 0
          THEN QuotDigit(rem, b, mid, hi)
          ELSE QuotDigit(rem, b, lo, mid - 1)

\* schoolbook long division, most significant limb of a first:
\* [q |-> quotient limbs so far (unnormalised), r |-> remainder]
RECURSIVE NDivMod(_, _)
NDivMod(a, b) ==
  IF a = <<>> THEN [q |-> <<>>, r |-> <<>>]
  ELSE LET up == NDivMod(Tail(a), b)
           rem == NNorm(<<a[1]>> \o up.r)
           d == IF Len(b) = 1
                THEN (Limb(rem, 2) * Base + Limb(rem, 1)) \div b[1]
                ELSE QuotDigit(rem, b, 0, Base - 1)
       IN [q |-> <<d>> \o up.q, r |-> NSub(rem, NMulLimb(b, d))]

\* floor(a / b) for b # 0
NDiv(a, b) == NNorm(NDivMod(a, b).q)

Z(n) == IF n < 0 THEN [neg |-> TRUE, mag |-> NOfInt(-n)]
        ELSE [neg |-> FALSE, mag |-> NOfInt(n)]
ZMake(neg, mag) == [neg |-> neg /\ mag # <<>>, mag |-> mag]
ZNeg(a) == ZMake(~a.neg, a.mag)

ZAdd(a, b) ==
  IF a.neg = b.neg THEN ZMake(a.neg, NAdd(a.mag, b.mag))
  ELSE IF NCmp(a.mag, b.mag) >= 0 THEN ZMake(a.neg, NSub(a.mag, b.mag))
  ELSE ZMake(b.neg, NSub(b.mag, a.mag))

ZSub(a, b) == ZAdd(a, ZNeg(b))
ZMul(a, b) == ZMake(a.neg # b.neg, NMul(a.mag, b.mag))

ZCmp(a, b) ==
  IF a.neg # b.neg THEN (IF a.neg THEN -1 ELSE 1)
  ELSE IF a.neg THEN NCmp(b.mag, a.mag) ELSE NCmp(a.mag, b.mag)

ZLt(a, b) == ZCmp(a, b) < 0
ZLe(a, b) == ZCmp(a, b) <= 0

\* a // b of Python for b # 0: the floor of the quotient
ZFloorDiv(a, b) ==
  IF a.neg = b.neg THEN ZMake(FALSE, NDiv(a.mag, b.mag))
  ELSE LET d == NDivMod(a.mag, b.mag)
       IN ZMake(TRUE, IF d.r = <<>> THEN NNorm(d.q) ELSE NAdd(NNorm(d.q), <<1>>))

\* 1 << k
RECURSIVE ZPow2(_)
ZPow2(k) == IF k = 0 THEN Z(1) ELSE LET h == ZPow2(k - 1) IN ZAdd(h, h)

\* ------------------------------------------------------------ arithmetic.py
TOP == ZPow2(32)
HALF == ZPow2(31)
QTR == ZPow2(30)

\* x & (_TOP-1): the low 32 bits of the two's complement of x
Mask32(x) ==
  LET m == NNorm(<<Limb(x.mag, 1), Limb(x.mag, 2), Limb(x.mag, 3) % 4>>)
  IN IF x.neg /\ m # <<>> THEN ZSub(TOP, ZMake(FALSE, m)) ELSE ZMake(FALSE, m)

\* n.to_bytes(k, "big") and int.from_bytes for Python ints
RECURSIVE ZBytesOf(_, _)
ZBytesOf(a, k) ==
  IF k = 0 THEN <<>>
  ELSE LET d == NDivMod(a.mag, <<256>>)
       IN Append(ZBytesOf(ZMake(FALSE, NNorm(d.q)), k - 1), Limb(d.r, 1))

RECURSIVE ZShiftRightBytes(_, _)
ZShiftRightBytes(a, k) ==
  IF k = 0 THEN a ELSE ZShiftRightBytes(ZFloorDiv(a, Z(256)), k - 1)

ZToBytes(a, k) ==
  IF a.neg \/ ZShiftRightBytes(a, k).mag # <<>>
  THEN Raise("OverflowError") ELSE Ok(ZBytesOf(a, k))

RECURSIVE ZFromBytes(_)
ZFromBytes(b) ==
  IF b = <<>> THEN Z(0)
  ELSE ZAdd(ZMul(Z(256), ZFromBytes(SubSeq(b, 1, Len(b) - 1))), Z(b[Len(b)]))

KeySet(d) == { d[i][1] : i \in 1..Len(d) }

\* the sum of the counts of entries a..b of a table, by halves
RECURSIVE ZSumRange(_, _, _)
ZSumRange(f, a, b) ==
  IF a > b THEN Z(0)
  ELSE IF a = b THEN f[a][2]
  ELSE ZAdd(ZSumRange(f, a, (a + b) \div 2), ZSumRange(f, (a + b) \div 2 + 1, b))

ZSum(f) == ZSumRange(f, 1, Len(f))

\* sorted(freq) with the count of each symbol
SortedCounts(f) ==
  LET symbols == SortAsc(KeySet(f))
  IN [k \in 1..Len(symbols) |-> <<symbols[k], Get(f, symbols[k])>>]

\* arithmetic.py:89-95 and 162-165: cum[s] for s ascending, the sum of the
\* counts of all smaller symbols
CumOf(counts) ==
  [k \in 1..Len(counts) |-> <<counts[k][1], ZSumRange(counts, 1, k - 1)>>]

CumTable(f) == CumOf(SortedCounts(f))

\* lines 110-112 and 178, 186-187: the interval after narrowing to a symbol
\* of cumulative offset c and count f
NarrowFrom(l, r, f, total) ==
  [low |-> l, high |-> ZSub(ZAdd(l, ZFloorDiv(ZMul(r, f), total)), Z(1))]

NarrowRange(lo, r, c, f, total) ==
  NarrowFrom(ZAdd(lo, ZFloorDiv(ZMul(r, c), total)), r, f, total)

Narrow(lo, hi, c, f, total) ==
  NarrowRange(lo, ZAdd(ZSub(hi, lo), Z(1)), c, f, total)

\* the branch of the normalisation loop (lines 116-123, 191-198)
RenormCase(lo, hi) ==
  IF ZLt(hi, HALF) THEN "a"
  ELSE IF ZLe(HALF, lo) THEN "b"
  ELSE IF ZLe(QTR, lo) /\ ZLt(hi, ZMul(Z(3), QTR)) THEN "c"
  ELSE "exit"

\* what the branch subtracts from low, high (and code)
RenormOffset(case) ==
  IF case = "b" THEN HALF ELSE IF case = "c" THEN QTR ELSE Z(0)

\* lines 124-125, 199-200
ShiftLow(lo) == Mask32(ZAdd(lo, lo))
ShiftHigh(hi) == Mask32(ZAdd(ZAdd(hi, hi), Z(1)))
\* line 201
ShiftCode(code, bit) == Mask32(ZAdd(ZAdd(code, code), Z(bit)))

\* variant of emit that writes the deferred bits but keeps counting them
EmitKeepsPending(bits_, pending_, bit) ==
  [bits |-> Append(bits_, bit % 2)
            \o (IF pending_ # 0 THEN Repeat((1 - bit) % 2, pending_) ELSE <<>>),
   pending |-> pending_]

\* emit(bit) of encode (lines 101-106) on (bout.bits, pending)
Emit(bits_, pending_, bit) ==
  [bits |-> Append(bits_, bit % 2)
            \o (IF pending_ # 0 THEN Repeat((1 - bit) % 2, pending_) ELSE <<>>),
   pending |-> 0]

\* one pass through the body of the encoder's normalisation loop
EncShift(st) ==
  LET case == RenormCase(st.low, st.high)
      off == RenormOffset(case)
      e == IF case = "a" THEN Emit(st.bits, st.pending, 0)
           ELSE IF case = "b" THEN Emit(st.bits, st.pending, 1)
           ELSE [bits |-> st.bits, pending |-> st.pending + 1]
  IN [low |-> ShiftLow(ZSub(st.low, off)),
      high |-> ShiftHigh(ZSub(st.high, off)),
      bits |-> e.bits,
      pending |-> e.pending]

RECURSIVE EncRenorm(_)
EncRenorm(st) ==
  IF RenormCase(st.low, st.high) = "exit" THEN st ELSE EncRenorm(EncShift(st))

\* lines 109-112
EncNarrow(st, b, f, cum, total) ==
  LET nw == Narrow(st.low, st.high, Get(cum, b), Get(f, b), total)
  IN [low |-> nw.low, high |-> nw.high, bits |-> st.bits, pending |-> st.pending]

RECURSIVE EncLoop(_, _, _, _, _)
EncLoop(st, d, f, cum, total) ==
  IF d = <<>> THEN st
  ELSE EncLoop(EncRenorm(EncNarrow(st, d[1], f, cum, total)), Tail(d), f, cum, total)

EncInit == [low |-> Z(0), high |-> ZSub(TOP, Z(1)), bits |-> <<>>, pending |-> 0]

\* lines 128-129: the final bits
EncFinal(st) == Emit(st.bits, st.pending + 1, IF ZLt(st.low, QTR) THEN 0 ELSE 1)

\* _BitOut.finish
Finish(bits) == PackBits(bits \o Repeat(0, (-Len(bits)) % 8))

\* lines 133-140: the writes to buf in program order; n is len(data)
ArithBlob(n, f, code_bits) ==
  LET symbols == SortAsc(KeySet(f))
  IN Writes(<<ZToBytes(n, 4), BytesLit(<<Len(symbols)>>)>>
            \o [i \in 1..(2 * Len(symbols)) |->
                  IF i % 2 = 1 THEN BytesLit(<<symbols[(i + 1) \div 2]>>)
                  ELSE ZToBytes(Get(f, symbols[i \div 2]), 4)]
            \o <<Ok(code_bits)>>)

\* Counter(data) with Python int counts
ZCounter(d) == LET c == Counter(d) IN [i \in 1..Len(c) |-> <<c[i][1], Z(c[i][2])>>]

\* ArithmeticCoder.encode
ArithEncode(d) ==
  IF d = <<>> THEN Ok(<<>>)
  ELSE LET c == Counter(d)
       IN IF Len(c) = 1 THEN RunRecord(c, d)
          ELSE LET f == ZCounter(d)
                   st == EncLoop(EncInit, d, f, CumTable(f), ZSum(f))
               IN ArithBlob(Z(Len(d)), f, Finish(EncFinal(st).bits))

\* ------------------------------------------------------------ decode
\* _BitIn.get at cursor idx (0-based): 0 past the end
BitAt(bits, idx) == IF idx >= Len(bits) THEN 0 ELSE bits[idx + 1]

\* the dict built by assigning the pairs in order (line 160, freq[s] = f)
RECURSIVE DictOf(_)
DictOf(es) ==
  IF es = <<>> THEN <<>>
  ELSE DictSet(DictOf(SubSeq(es, 1, Len(es) - 1)), es[Len(es)][1], es[Len(es)][2])

\* lines 150-165: the parsed header
\* [exc, n, symbols, freq, total, cum, bits]
ParsedTable(blob_, sc, entries, f) ==
  [exc |-> "none",
   n |-> ZFromBytes(Slice(blob_, 0, 4)),
   symbols |-> Keys(entries),
   freq |-> f,
   total |-> ZSum(entries),
   cum |-> CumTable(f),
   bits |-> UnpackBits(Slice(blob_, 5 + 5 * sc, Len(blob_)))]

\* the symbol byte of entry k is at offset 5 + 5 * (k - 1)
TableEntries(blob_, sc) ==
  [k \in 1..sc |->
     <<blob_[5 + 5 * (k - 1) + 1],
       ZFromBytes(Slice(blob_, 5 + 5 * (k - 1) + 1, 5 + 5 * k))>>]

ParseTable(blob_, sc, entries) ==
  IF \E k \in 1..sc : Len(blob_) <= 5 + 5 * (k - 1)
  THEN [exc |-> "IndexError"]
  ELSE ParsedTable(blob_, sc, entries, DictOf(entries))

ArithParse(blob_) ==
  IF Len(blob_) < 5 THEN [exc |-> "IndexError"]
  ELSE ParseTable(blob_, blob_[5], TableEntries(blob_, blob_[5]))

\* lines 169-171: the first 32 bits of the source, most significant first
\* (0 past the end), as limbs of 15, 15 and 2 bits
ReadCode(bits) ==
  LET b == [i \in 1..32 |-> BitAt(bits, i - 1)]
  IN ZMake(FALSE, NNorm(<<BitsToInt(SubSeq(b, 18, 32)),
                          BitsToInt(SubSeq(b, 3, 17)),
                          BitsToInt(SubSeq(b, 1, 2))>>))

\* line 179
Scaled(lo, hi, code, total) ==
  ZFloorDiv(ZSub(ZMul(ZAdd(ZSub(code, lo), Z(1)), total), Z(1)),
            ZAdd(ZSub(hi, lo), Z(1)))

\* lines 180-182: the first symbol whose range holds scaled, else the last
RECURSIVE FindSymbol(_, _, _, _)
FindSymbol(symbols, f, cum, scaled) ==
  LET s == symbols[1]
  IN IF Len(symbols) = 1 THEN s
     ELSE IF ZLt(scaled, ZAdd(Get(cum, s), Get(f, s))) /\ ZLe(Get(cum, s), scaled)
          THEN s
          ELSE FindSymbol(Tail(symbols), f, cum, scaled)

\* lines 178-187 on [low, high, code, idx, out, exc]
DecFailed(st, e) ==
  [low |-> st.low, high |-> st.high, code |-> st.code,
   idx |-> st.idx, out |-> st.out, exc |-> e]

DecNarrowed(st, nw, s) ==
  [low |-> nw.low, high |-> nw.high, code |-> st.code,
   idx |-> st.idx, out |-> Append(st.out, s), exc |-> st.exc]

DecNarrow(st, h, s) ==
  DecNarrowed(st, Narrow(st.low, st.high, Get(h.cum, s), Get(h.freq, s), h.total), s)

DecSymbol(st, h) ==
  IF ZAdd(ZSub(st.high, st.low), Z(1)).mag = <<>> \/ h.total.mag = <<>>
  THEN DecFailed(st, "ZeroDivisionError")
  ELSE IF h.symbols = <<>> THEN DecFailed(st, "UnboundLocalError")
  ELSE DecNarrow(st, h, FindSymbol(h.symbols, h.freq, h.cum,
                                   Scaled(st.low, st.high, st.code, h.total)))

\* one pass through the body of the decoder's normalisation loop
DecShift(st, bits) ==
  LET off == RenormOffset(RenormCase(st.low, st.high))
  IN [low |-> ShiftLow(ZSub(st.low, off)),
      high |-> ShiftHigh(ZSub(st.high, off)),
      code |-> ShiftCode(ZSub(st.code, off), BitAt(bits, st.idx)),
      idx |-> IF st.idx >= Len(bits) THEN st.idx ELSE st.idx + 1,
      out |-> st.out,
      exc |-> st.exc]

RECURSIVE DecRenorm(_, _)
DecRenorm(st, bits) ==
  IF RenormCase(st.low, st.high) = "exit" THEN st
  ELSE DecRenorm(DecShift(st, bits), bits)

DecInit(bits) ==
  [low |-> Z(0), high |-> ZSub(TOP, Z(1)), code |-> ReadCode(bits),
   idx |-> Min(32, Len(bits)), out |-> <<>>, exc |-> "none"]

\* lines 177-201: a symbol and its normalisation, until n symbols are out
RECURSIVE DecLoop(_, _)
DecAfterSymbol(t, h) ==
  IF t.exc # "none" THEN t ELSE DecLoop(DecRenorm(t, h.bits), h)

DecLoop(st, h) ==
  IF st.exc # "none" \/ ~ZLt(Z(Len(st.out)), h.n) THEN st
  ELSE DecAfterSymbol(DecSymbol(st, h), h)

DecResult(st) == IF st.exc # "none" THEN Raise(st.exc) ELSE Ok(st.out)

DecParsed(h) ==
  IF h.exc # "none" THEN Raise(h.exc) ELSE DecResult(DecLoop(DecInit(h.bits), h))

\* ArithmeticCoder.decode
ArithDecode(blob_) ==
  IF blob_ = <<>> THEN Ok(<<>>)
  ELSE IF StartsWith(blob_, RUN) THEN RunDecode(blob_)
  ELSE DecParsed(ArithParse(blob_))

\* ------------------------------------------------------------ state
VARIABLES
  data,     \* the input byte sequence (the part of it the model follows)
  \* HuffmanCoder.encode / _build_tree
  tpc,      \* position in HuffmanCoder.encode / _build_tree
  freq,     \* Counter(data)
  heap,     \* the heap list of _build_tree
  n1, n2,   \* the two nodes popped by the current merge (line 146)
  raw_map,  \* result of _build_code_map
  canon,    \* result of _to_canonical
  \* ArithmeticCoder.encode / decode
  apc,      \* position in ArithmeticCoder.encode, then in decode
  atail,    \* counts of the bytes of the input after `data`
  afreq,    \* freq of encode: Counter of the whole input
  cum, total, \* the cumulative table and the sum of the counts (lines 89-95)
  low, high,
  pending,
  bits,     \* bout.bits of encode
  epos,     \* 1-based index in data of the byte the encoder loop is at
  shifts,   \* number of passes through the encoder's shift (lines 124-125)
  trace,    \* <<low, high>> of the encoder after each byte and its normalisation
  blob,     \* the bytes encode returns; with a non-empty atail its known prefix
  hdr,      \* decode: the parsed header and the bit source
  code, idx,
  out,
  \* one call of encode and decode
  cpc, coder, encoded, decoded, cut

treeVars == <<tpc, freq, heap, n1, n2, raw_map, canon>>
arithVars == <<apc, atail, afreq, cum, total, low, high, pending, bits, epos, shifts, trace,
               blob, hdr, code, idx, out>>
codecVars == <<cpc, coder, encoded, decoded, cut>>
vars == <<data, treeVars, arithVars, codecVars>>

NoNode == Leaf(0, None)

TreeIdle ==
  /\ tpc = "off" /\ freq = <<>> /\ heap = <<>> /\ n1 = NoNode /\ n2 = NoNode
  /\ raw_map = <<>> /\ canon = <<>>

ArithIdle ==
  /\ apc = "off" /\ atail = <<>> /\ afreq = <<>> /\ cum = <<>> /\ total = Z(0)
  /\ low = Z(0) /\ high = Z(0)
  /\ pending = 0 /\ bits = <<>> /\ epos = 0 /\ shifts = 0 /\ trace = <<>>
  /\ blob = <<>> /\ hdr = [exc |-> "none"] /\ code = Z(0) /\ idx = 0 /\ out = <<>>

CodecIdle ==
  /\ cpc = "off" /\ coder = "none" /\ encoded = Ok(<<>>) /\ decoded = Ok(<<>>)
  /\ cut = 0

\* ------------------------------------------------------------ SpecTree
\* inputs: every arrangement of 2..MaxSym+1 distinct byte values, each in a
\* run of 1..MaxCount copies (the order of first occurrence is the order of
\* the runs), of at most MaxInput bytes in all
Bytes == 0..MaxSym

RECURSIVE Runs(_)
Runs(rs) == IF rs = <<>> THEN <<>>
            ELSE Repeat(rs[1][1], rs[1][2]) \o Runs(Tail(rs))

\* the sequences of k distinct elements of S
RECURSIVE Arrangements(_, _)
Arrangements(S, k) ==
  IF k = 0 THEN { <<>> }
  ELSE UNION { { Append(a, x) : x \in S \ { a[i] : i \in 1..Len(a) } }
               : a \in Arrangements(S, k - 1) }

RECURSIVE SumSeq(_)
SumSeq(cs) == IF cs = <<>> THEN 0 ELSE cs[1] + SumSeq(Tail(cs))

RunSeqs(S, c, n) ==
  UNION { { [i \in 1..k |-> <<a[i], cs[i]>>] :
              a \in Arrangements(S, k),
              cs \in { x \in [1..k -> 1..c] : SumSeq(x) <= n } }
          : k \in 2..Cardinality(S) }

TreeInit ==
  /\ data \in { Runs(rs) : rs \in RunSeqs(Bytes, MaxCount, MaxInput) }
  /\ tpc = "start"
  /\ freq = <<>>
  /\ heap = <<>>
  /\ n1 = NoNode
  /\ n2 = NoNode
  /\ raw_map = <<>>
  /\ canon = <<>>
  /\ ArithIdle
  /\ CodecIdle

\* huffman.py:56 and 143-144
StartTree ==
  /\ tpc = "start"
  /\ freq' = Counter(data)
  /\ heap' = InitialHeap(freq')
  /\ tpc' = "loop"
  /\ UNCHANGED <<data, n1, n2, raw_map, canon, arithVars, codecVars>>

\* huffman.py:145-146
Pop2 ==
  /\ tpc = "loop"
  /\ Len(heap) > 1
  /\ LET p == PopTwo(heap)
     IN /\ n1' = p.n1
        /\ n2' = p.n2
        /\ heap' = p.heap
  /\ tpc' = "popped"
  /\ UNCHANGED <<data, freq, raw_map, canon, arithVars, codecVars>>

\* huffman.py:147
PushNode ==
  /\ tpc = "popped"
  /\ heap' = PushMerged(heap, n1, n2)
  /\ tpc' = "loop"
  /\ UNCHANGED <<data, freq, n1, n2, raw_map, canon, arithVars, codecVars>>

\* huffman.py:148 and 65
CodeMap ==
  /\ tpc = "loop"
  /\ Len(heap) = 1
  /\ raw_map' = BuildCodeMap(heap[1], <<>>)
  /\ tpc' = "mapped"
  /\ UNCHANGED <<data, freq, heap, n1, n2, canon, arithVars, codecVars>>

\* huffman.py:68
Canonicalize ==
  /\ tpc = "mapped"
  /\ canon' = ToCanonical(raw_map)
  /\ tpc' = "canon"
  /\ UNCHANGED <<data, freq, heap, n1, n2, raw_map, arithVars, codecVars>>

TreeNext == StartTree \/ Pop2 \/ PushNode \/ CodeMap \/ Canonicalize

SpecTree == TreeInit /\ [][TreeNext]_vars

\* ------------------------------------------------------------ SpecArith
\* ArithmeticCoder.encode followed by ArithmeticCoder.decode, one loop pass
\* per step.  The input is data \o (the bytes counted by atail): the model
\* follows the coder over data.  With atail empty that is the whole input.
\* With atail non-empty the encoder goes on after data, which only appends
\* to bout.bits, so the bits written so far are a prefix of the payload and
\* the decoder is followed for as long as it reads inside that prefix.
MaxLen == 3
MaxByte == 2

\* the largest len(data) the 4-byte length field takes
MaxTotal == ZSub(TOP, Z(1))

\* every byte value once
AllBytes == [i \in 1..256 |-> i - 1]

ArithInputs ==
  UNION { { d \in [1..k -> 0..MaxByte] : \E i, j \in 1..k : d[i] # d[j] }
          : k \in 2..MaxLen }
  \cup {AllBytes}

\* the len(data) whose 4-byte big-endian form is b"RUN\x00"
RunTagLength == ZFromBytes(RUN \o <<0>>)

\* the input is data alone, or data followed by zero bytes up to MaxTotal,
\* or up to RunTagLength
Tails(d) == IF Len(d) > MaxLen THEN { <<>> }
           ELSE { <<>>,
                  << <<0, ZSub(MaxTotal, Z(Len(d)))>> >>,
                  << <<0, ZSub(RunTagLength, Z(Len(d)))>> >> }

\* Counter of the whole input
RECURSIVE AddCounts(_, _)
AddCounts(f, t) ==
  IF t = <<>> THEN f
  ELSE AddCounts(IF Has(f, t[1][1])
                 THEN DictSet(f, t[1][1], ZAdd(Get(f, t[1][1]), t[1][2]))
                 ELSE Append(f, t[1]),
                 Tail(t))

WholeCounter(d, t) == AddCounts(ZCounter(d), t)

Complete == atail = <<>>

ArithInit ==
  /\ data \in ArithInputs
  /\ atail \in Tails(data)
  /\ apc = "start"
  /\ afreq = <<>> /\ cum = <<>> /\ total = Z(0) /\ low = Z(0) /\ high = Z(0)
  /\ pending = 0 /\ bits = <<>> /\ epos = 0 /\ shifts = 0 /\ trace = <<>>
  /\ blob = <<>> /\ hdr = [exc |-> "none"] /\ code = Z(0) /\ idx = 0 /\ out = <<>>
  /\ TreeIdle
  /\ CodecIdle

\* arithmetic.py:81-99
AStart ==
  /\ apc = "start"
  /\ afreq' = WholeCounter(data, atail)
  /\ cum' = CumTable(afreq')
  /\ total' = ZSum(afreq')
  /\ low' = EncInit.low
  /\ high' = EncInit.high
  /\ pending' = EncInit.pending
  /\ bits' = EncInit.bits
  /\ epos' = 1
  /\ apc' = "narrow"
  /\ UNCHANGED <<data, atail, shifts, trace, blob, hdr, code, idx, out,
                 treeVars, codecVars>>

EncState == [low |-> low, high |-> high, bits |-> bits, pending |-> pending]

\* arithmetic.py:109-112
ENarrow ==
  /\ apc = "narrow"
  /\ epos <= Len(data)
  /\ LET st == EncNarrow(EncState, data[epos], afreq, cum, total)
     IN low' = st.low /\ high' = st.high
  /\ apc' = "renorm"
  /\ UNCHANGED <<data, atail, afreq, cum, total, pending, bits, epos, shifts, trace, blob,
                 hdr, code, idx, out, treeVars, codecVars>>

\* arithmetic.py:115-125, a pass that shifts
EShift ==
  /\ apc = "renorm"
  /\ RenormCase(low, high) # "exit"
  /\ LET st == EncShift(EncState)
     IN /\ low' = st.low
        /\ high' = st.high
        /\ bits' = st.bits
        /\ pending' = st.pending
  /\ shifts' = shifts + 1
  /\ UNCHANGED <<data, atail, afreq, cum, total, apc, epos, trace, blob, hdr, code, idx, out,
                 treeVars, codecVars>>

\* arithmetic.py:122-123, the pass that leaves the loop
EExit ==
  /\ apc = "renorm"
  /\ RenormCase(low, high) = "exit"
  /\ epos' = epos + 1
  /\ trace' = Append(trace, <<low, high>>)
  /\ apc' = "narrow"
  /\ UNCHANGED <<data, atail, afreq, cum, total, low, high, pending, bits, shifts, blob,
                 hdr, code, idx, out, treeVars, codecVars>>

\* arithmetic.py:128-140 (bits keeps the bits written before finish pads)
EFinish ==
  /\ apc = "narrow"
  /\ epos > Len(data)
  /\ Complete
  /\ LET e == EncFinal(EncState)
         r == ArithBlob(Z(Len(data)), afreq, Finish(e.bits))
     IN /\ bits' = e.bits
        /\ pending' = e.pending
        /\ blob' = r.val
        /\ apc' = IF r.exc = "none" THEN "encoded" ELSE r.exc
  /\ UNCHANGED <<data, atail, afreq, cum, total, low, high, epos, shifts, trace,
                 hdr, code, idx, out, treeVars, codecVars>>

\* the header of lines 133-138 and the whole bytes of payload written by
\* the time the encoder is past data, the input going on
EPrefix ==
  /\ apc = "narrow"
  /\ epos > Len(data)
  /\ ~Complete
  /\ LET r == ArithBlob(total, afreq,
                        PackBits(Slice(bits, 0, 8 * (Len(bits) \div 8))))
     IN /\ blob' = r.val
        /\ apc' = IF r.exc = "none" THEN "encoded" ELSE r.exc
  /\ UNCHANGED <<data, atail, afreq, cum, total, low, high, pending, bits, epos, shifts,
                 trace, hdr, code, idx, out, treeVars, codecVars>>

\* arithmetic.py:150-174
DStart ==
  /\ apc = "encoded"
  /\ ~StartsWith(blob, RUN)
  /\ LET h == ArithParse(blob)
     IN /\ h.exc = "none"
        /\ Complete \/ Len(h.bits) >= 32
        /\ hdr' = h
        /\ LET st == DecInit(h.bits)
           IN /\ low' = st.low
              /\ high' = st.high
              /\ code' = st.code
              /\ idx' = st.idx
              /\ out' = st.out
  /\ apc' = "dsym"
  /\ UNCHANGED <<data, atail, afreq, cum, total, pending, bits, epos, shifts, trace, blob,
                 treeVars, codecVars>>

\* arithmetic.py:145-148, the RUN branch: bytes([blob[3]]) * n, of which out
\* keeps the bytes at the positions of data
DRun ==
  /\ apc = "encoded"
  /\ StartsWith(blob, RUN)
  /\ IF Len(blob) < 4
     THEN apc' = "IndexError" /\ UNCHANGED <<hdr, out>>
     ELSE LET n == ZFromBytes(Slice(blob, 4, 8))
          IN /\ hdr' = [exc |-> "none", n |-> n]
             /\ out' = Repeat(blob[4],
                              IF ZLt(n, Z(Len(data)))
                              THEN FromBytes(Slice(blob, 4, 8)) ELSE Len(data))
             /\ apc' = "rundone"
  /\ UNCHANGED <<data, atail, afreq, cum, total, low, high, pending, bits, epos,
                 shifts, trace, blob, code, idx, treeVars, codecVars>>

DecState == [low |-> low, high |-> high, code |-> code, idx |-> idx,
             out |-> out, exc |-> "none"]

\* arithmetic.py:177-187
DSymbol ==
  /\ apc = "dsym"
  /\ ZLt(Z(Len(out)), hdr.n)
  /\ Complete \/ Len(out) < Len(data)
  /\ LET st == DecSymbol(DecState, hdr)
     IN /\ low' = st.low
        /\ high' = st.high
        /\ out' = st.out
        /\ apc' = IF st.exc = "none" THEN "drenorm" ELSE st.exc
  /\ UNCHANGED <<data, atail, afreq, cum, total, pending, bits, epos, shifts, trace, blob,
                 hdr, code, idx, treeVars, codecVars>>

\* arithmetic.py:190-201, a pass that shifts
DShift ==
  /\ apc = "drenorm"
  /\ RenormCase(low, high) # "exit"
  /\ Complete \/ idx < Len(hdr.bits)
  /\ LET st == DecShift(DecState, hdr.bits)
     IN /\ low' = st.low
        /\ high' = st.high
        /\ code' = st.code
        /\ idx' = st.idx
  /\ UNCHANGED <<data, atail, afreq, cum, total, apc, pending, bits, epos, shifts, trace,
                 blob, hdr, out, treeVars, codecVars>>

\* arithmetic.py:197-198
DExit ==
  /\ apc = "drenorm"
  /\ RenormCase(low, high) = "exit"
  /\ apc' = "dsym"
  /\ UNCHANGED <<data, atail, afreq, cum, total, low, high, pending, bits, epos, shifts,
                 trace, blob, hdr, code, idx, out, treeVars, codecVars>>

\* arithmetic.py:177 and 203
DReturn ==
  /\ apc = "dsym"
  /\ ~ZLt(Z(Len(out)), hdr.n)
  /\ apc' = "done"
  /\ UNCHANGED <<data, atail, afreq, cum, total, low, high, pending, bits, epos, shifts,
                 trace, blob, hdr, code, idx, out, treeVars, codecVars>>

ArithNext ==
  \/ AStart \/ ENarrow \/ EShift \/ EExit \/ EFinish \/ EPrefix
  \/ DStart \/ DRun \/ DSymbol \/ DShift \/ DExit \/ DReturn

SpecArith == ArithInit /\ [][ArithNext]_vars

\* ------------------------------------------------------------ SpecCodec
\* one call of coder.encode(data) and one of coder.decode, on the blob or on
\* a proper prefix of it
CodecInputs == UNION { [1..k -> 0..MaxByte] : k \in 0..MaxLen }

Encode(c, d) == IF c = "Huffman" THEN HuffmanEncode(d) ELSE ArithEncode(d)
Decode(c, b) == IF c = "Huffman" THEN HuffmanDecode(b) ELSE ArithDecode(b)

CodecInit ==
  /\ data \in CodecInputs
  /\ coder \in {"Huffman", "Arithmetic"}
  /\ cpc = "start"
  /\ encoded = Ok(<<>>) /\ decoded = Ok(<<>>) /\ cut = 0
  /\ TreeIdle
  /\ ArithIdle

\* main.py:52, encoded = coder.encode(data)
CEncode ==
  /\ cpc = "start"
  /\ encoded' = Encode(coder, data)
  /\ cpc' = "encoded"
  /\ UNCHANGED <<data, coder, decoded, cut, treeVars, arithVars>>

\* main.py:67, decoded = coder.decode(encoded)
CDecode ==
  /\ cpc = "encoded"
  /\ encoded.exc = "none"
  /\ decoded' = Decode(coder, encoded.val)
  /\ cut' = Len(encoded.val)
  /\ cpc' = "decoded"
  /\ UNCHANGED <<data, coder, encoded, treeVars, arithVars>>

\* coder.decode on the first k bytes of the blob, k < len(encoded)
CDecodeCut ==
  /\ cpc = "encoded"
  /\ encoded.exc = "none"
  /\ \E k \in 0..(Len(encoded.val) - 1) :
       /\ decoded' = Decode(coder, Slice(encoded.val, 0, k))
       /\ cut' = k
  /\ cpc' = "decoded"
  /\ UNCHANGED <<data, coder, encoded, treeVars, arithVars>>

CodecNext == CEncode \/ CDecode \/ CDecodeCut

SpecCodec == CodecInit /\ [][CodecNext]_vars

\* ------------------------------------------------------------ properties
IsLeaf(n) == n.symbol # None
IsProperPrefix(p, q) == Len(p) < Len(q) /\ SubSeq(q, 1, Len(p)) = p
HeapNodes == { heap[i] : i \in 1..Len(heap) }

Errors == {"ValueError", "IndexError", "OverflowError", "ZeroDivisionError",
           "UnboundLocalError"}

\* C1: decode(encode(d)) = d, stated for ArithmeticCoder (the claim holds of
\* each coder independently): neither call ends in an error, every byte the
\* decoder has produced is the byte of the input at that position, and
\* decode returns the input.
C1_RoundTrip ==
  /\ apc \notin Errors
  /\ apc \in {"dsym", "drenorm", "done"} =>
       /\ Len(out) <= Len(data) \/ ~Complete
       /\ \A i \in 1..Min(Len(out), Len(data)) : out[i] = data[i]
  /\ (apc = "done" /\ Complete) => out = data

\* the 4-byte big-endian form of n
BigEndian4(n) == [i \in 1..4 |-> (n \div Pow2(8 * (4 - i))) % 256]
IsRun(d) == Len(d) >= 1 /\ \A i \in 1..Len(d) : d[i] = d[1]

\* C2: for n >= 1 copies of one byte s, encode of either coder returns the 8
\* bytes 'RUN', s, n as a 4-byte big-endian integer, and decode of that
\* record returns the n copies of s.
C2_RunShortcut ==
  IsRun(data) =>
    /\ cpc \in {"encoded", "decoded"} =>
         encoded = Ok(<<82, 85, 78, data[1]>> \o BigEndian4(Len(data)))
    /\ (cpc = "decoded" /\ cut = Len(encoded.val)) => decoded = Ok(data)

\* a single byte has been encoded and the whole record decoded
C2_Witness ==
  /\ cpc = "decoded" /\ Len(data) = 1 /\ cut = 8 /\ decoded.val = data

\* C3: for an input of k distinct byte values, 2 <= k <= 256, encode returns
\* a blob without failing, the count byte of its header holds k, and decode
\* reads back the k table entries; stated for ArithmeticCoder.
C3_FullByteRange ==
  /\ apc \notin Errors
  /\ apc \in {"encoded", "dsym", "drenorm", "done"} =>
       /\ Len(afreq) \in 2..256
       /\ blob[5] = Len(afreq)
  /\ apc \in {"dsym", "drenorm", "done"} => Len(hdr.symbols) = Len(afreq)

\* C4: decode of a proper prefix of a blob that encode produced returns a
\* byte sequence and does not end in an error.
C4_TruncatedNeverRaises ==
  (cpc = "decoded" /\ cut < Len(encoded.val)) => decoded.exc = "none"


\* C5: at the moment of a merge (the two nodes popped, the merged node not
\* yet pushed) no node left in the heap has a strictly smaller frequency
\* than either of the two merged nodes.
C5_MergesTwoLowest ==
  tpc = "popped" =>
    \A x \in HeapNodes : x.freq >= n1.freq /\ x.freq >= n2.freq

\* C7: among nodes of equal frequency an internal node sorts strictly before
\* every leaf, two leaves sort by ascending symbol, and the order is total
\* on the nodes of the heap when they hold at most one internal node per
\* frequency.
C7_NodeOrder ==
  /\ \A a, b \in HeapNodes :
       a.freq = b.freq =>
         /\ (~IsLeaf(a) /\ IsLeaf(b)) => (Lt(a, b) /\ ~Lt(b, a))
         /\ (IsLeaf(a) /\ IsLeaf(b) /\ a.symbol < b.symbol)
              => (Lt(a, b) /\ ~Lt(b, a))
  /\ (\A a, b \in HeapNodes :
        (~IsLeaf(a) /\ ~IsLeaf(b) /\ a.freq = b.freq) => a = b)
       => \A a, b \in HeapNodes : a # b => (Lt(a, b) \/ Lt(b, a))

\* C8: the canonical table is a prefix code that keeps every raw code
\* length, and the decoder's first table match on the accumulated bits of
\* the encoded input is the symbol that was encoded.
C8_CanonicalPrefixCode ==
  tpc = "canon" =>
    /\ Len(canon) = Len(raw_map)
    /\ \A i \in 1..Len(raw_map) :
         /\ Has(canon, raw_map[i][1])
         /\ Len(Get(canon, raw_map[i][1])) = Len(raw_map[i][2])
    /\ \A i, j \in 1..Len(canon) :
         i # j => /\ canon[i][2] # canon[j][2]
                  /\ ~IsProperPrefix(canon[i][2], canon[j][2])
    /\ MatchLoop(JoinCodes(canon, data), DecodeTable(Lengths(raw_map)),
                 Len(data), <<>>, <<>>) = data

\* a canonical table with codes of two different lengths
C8_Witness ==
  /\ tpc = "canon"
  /\ \E i, j \in 1..Len(canon) : Len(canon[i][2]) < Len(canon[j][2])

InCoderLoop == apc \in {"narrow", "renorm", "dsym", "drenorm"}
\* the normalisation loop has just been left
AfterRenorm == \/ apc = "narrow" /\ epos > 1
               \/ apc = "dsym" /\ out # <<>>

\* C6: in encode and in decode 0 <= low <= high <= 2^32-1 after every
\* narrowing step and every shift, and the width high-low+1 is at least 2^30
\* whenever the normalisation loop has been left.
C6_IntervalInvariant ==
  /\ InCoderLoop =>
       /\ ZLe(Z(0), low) /\ ZLe(low, high) /\ ZLe(high, ZSub(TOP, Z(1)))
  /\ AfterRenorm => ZLe(QTR, ZAdd(ZSub(high, low), Z(1)))

\* C9: after its k-th symbol and the normalisation that follows, the
\* decoder's (low, high) is the encoder's after the k-th byte, and at the
\* start of every decoder symbol step low <= code <= high.
C9_Lockstep ==
  apc = "dsym" =>
    /\ out # <<>> => <<low, high>> = trace[Len(out)]
    /\ ZLt(Z(Len(out)), hdr.n) => (ZLe(low, code) /\ ZLe(code, high))

\* C10: every emit of a bit x appends x and then exactly the deferred count
\* of complements of x and resets pending; in the symbol loop the bits
\* written plus pending equal the number of shifts; when encode has
\* finished pending is 0 and the bits written are the shifts plus 2.
C10_EmitStep ==
  (apc \in {"narrow", "renorm"} /\ bits' # bits) =>
     LET x == bits'[Len(bits) + 1]
         deferred == IF apc = "narrow" THEN pending + 1 ELSE pending
     IN /\ bits' = bits \o <<x>> \o Repeat(1 - x, deferred)
        /\ pending' = 0

C10_Accounting ==
  /\ (apc \in {"narrow", "renorm"}) => Len(bits) + pending = shifts
  /\ (apc = "encoded" /\ Complete) => (pending = 0 /\ Len(bits) = shifts + 2)

C10_PendingBitsWritten == []C10_Accounting /\ [][C10_EmitStep]_vars

\* a deferred underflow bit is waiting after earlier bits were written
C10_Witness == apc = "renorm" /\ pending >= 1 /\ bits # <<>>

\* C11: a blob that encode returns for an input of two or more distinct
\* symbols does not begin with the bytes 'RUN', so decode never takes its RUN
\* branch on it; stated for ArithmeticCoder.
C11_RunTagOnlyFromRunPath ==
  /\ (apc = "encoded" /\ Len(afreq) >= 2) => ~StartsWith(blob, RUN)
  /\ apc # "rundone"

====
